---- MODULE Spec2Model ----
(***************************************************************************)
(* Model of the relayer's utility core (src/unnamed/part_000):             *)
(* height arithmetic, chain-id parsing, event parsing, fee scaling and the *)
(* packet classifier splitPendingPackets.                                  *)
(*                                                                         *)
(* The functions are pure.  The state machine records one call at a time:  *)
(* op is the function called, arg its arguments and ret what it returned   *)
(* (or Threw when it throws).                                              *)
(*                                                                         *)
(* Representation of the JavaScript values involved:                       *)
(*   - a string whose characters the code inspects is a sequence of        *)
(*     one-character strings, "1-50" is <<"1", "-", "5", "0">>;            *)
(*   - a Long (long.js) is a record [bits, unsigned]: bits is the 64-bit   *)
(*     two's complement pattern, least significant bit first;              *)
(*   - a JavaScript number is a TLA+ integer where it is small             *)
(*     (fees, seconds), and a record [neg, mag] where it comes out of      *)
(*     Long.toNumber or of a product with 1e9: mag is the magnitude as a   *)
(*     bit sequence without leading zeros, rounded as an IEEE double is.   *)
(***************************************************************************)
EXTENDS Integers, Sequences, FiniteSets, TLC

VARIABLES op, arg, ret

vars == <<op, arg, ret>>

\* a long.js Long is 64 bits: eight bytes
LongBytes == 8
\* significant bits of an IEEE-754 double, the JavaScript number
DoubleBits == 53
\* timeGreater: seconds to nanoseconds
NanosPerSecond == 1000000000

\* an absent optional value, a thrown Error, and the number NaN
undefined == [undefined |-> TRUE]
Threw == [threw |-> TRUE]
NaN == [nan |-> TRUE]

(***************************************************************************)
(* Natural numbers beyond 32 bits: sequences of bytes, least significant   *)
(* byte first ("Big").                                                     *)
(***************************************************************************)
PowersOfTwo == <<1, 2, 4, 8, 16, 32, 64, 128, 256>>

Pow2(k) == PowersOfTwo[k + 1]

\* the bytes of a small natural n (below 2^31), without leading zeros
RECURSIVE BigFromNat(_)
BigFromNat(n) == IF n = 0 THEN <<>> ELSE <<n % 256>> \o BigFromNat(n \div 256)

\* drop the leading (most significant) zero bytes
BigTrim(a) ==
  LET nz == {i \in 1..Len(a) : a[i] # 0}
  IN  IF nz = {} THEN <<>>
      ELSE SubSeq(a, 1, CHOOSE i \in nz : \A j \in nz : j <= i)

BigByte(a, i) == IF i >= 1 /\ i <= Len(a) THEN a[i] ELSE 0

RECURSIVE BigAddFrom(_, _, _, _)
BigAddFrom(a, b, i, carry) ==
  IF i > Len(a) /\ i > Len(b)
  THEN (IF carry = 1 THEN <<1>> ELSE <<>>)
  ELSE LET s == BigByte(a, i) + BigByte(b, i) + carry
       IN  <<s % 256>> \o BigAddFrom(a, b, i + 1, s \div 256)

BigAdd(a, b) == BigAddFrom(a, b, 1, 0)

\* a * 256^k
BigShl(a, k) == [i \in 1..k |-> 0] \o a

\* a * m for a small natural m (at most 256)
RECURSIVE BigMulSmallFrom(_, _, _, _)
BigMulSmallFrom(a, m, i, carry) ==
  IF i > Len(a) THEN BigFromNat(carry)
  ELSE LET s == a[i] * m + carry
       IN  <<s % 256>> \o BigMulSmallFrom(a, m, i + 1, s \div 256)

BigMulSmall(a, m) == BigMulSmallFrom(a, m, 1, 0)

\* schoolbook product, one byte of b at a time
RECURSIVE BigMulFrom(_, _, _)
BigMulFrom(a, b, i) ==
  IF i > Len(b) THEN <<>>
  ELSE BigAdd(BigShl(BigMulSmall(a, b[i]), i - 1), BigMulFrom(a, b, i + 1))

BigMul(a, b) == BigTrim(BigMulFrom(a, b, 1))

\* a > b as natural numbers
BigGreater(a, b) ==
  LET x == BigTrim(a)
      y == BigTrim(b)
      d == {i \in 1..Len(x) : i <= Len(y) /\ x[i] # y[i]}
  IN  \/ Len(x) > Len(y)
      \/ /\ Len(x) = Len(y)
         /\ d # {}
         /\ LET top == CHOOSE i \in d : \A j \in d : j <= i
            IN  x[top] > y[top]

BigEqual(a, b) == BigTrim(a) = BigTrim(b)

\* quotient and remainder of a by a small natural m, most significant byte first
RECURSIVE BigDivModFrom(_, _, _, _, _)
BigDivModFrom(a, m, i, r, quot) ==
  IF i = 0 THEN [quot |-> quot, rem |-> r]
  ELSE LET cur == 256 * r + a[i]
       IN  BigDivModFrom(a, m, i - 1, cur % m, <<cur \div m>> \o quot)

BigDivMod(a, m) ==
  LET r == BigDivModFrom(a, m, Len(a), 0, <<>>)
  IN  [quot |-> BigTrim(r.quot), rem |-> r.rem]

\* the number of significant bits of a
BigBitLen(a) ==
  LET x == BigTrim(a)
  IN  IF x = <<>> THEN 0
      ELSE 8 * (Len(x) - 1) + (CHOOSE k \in 1..8 : Pow2(k - 1) <= x[Len(x)] /\ x[Len(x)] < Pow2(k))

\* bit i of a, bit 1 the least significant
BigBitAt(a, i) == (BigByte(a, (i - 1) \div 8 + 1) \div Pow2((i - 1) % 8)) % 2

\* 2^k
BigPow2(k) == [i \in 1..(k \div 8) |-> 0] \o <<Pow2(k % 8)>>

\* a mod 2^k, byte by byte
BigLowBits(a, k) ==
  [j \in 1..Len(a) |->
     IF 8 * j <= k THEN a[j]
     ELSE IF 8 * (j - 1) >= k THEN 0
     ELSE a[j] % Pow2(k - 8 * (j - 1))]

(***************************************************************************)
(* Strings as sequences of characters.                                     *)
(***************************************************************************)
DigitChars == <<"0", "1", "2", "3", "4", "5", "6", "7", "8", "9">>

IsDigit(c) == \E d \in 1..10 : DigitChars[d] = c

DigitValue(c) == (CHOOSE d \in 1..10 : DigitChars[d] = c) - 1

\* the decimal digits of a natural given as a bit sequence
RECURSIVE BigToString(_)
BigToString(a) ==
  LET dm == BigDivMod(a, 10)
  IN  IF dm.quot = <<>> THEN <<DigitChars[dm.rem + 1]>>
      ELSE BigToString(dm.quot) \o <<DigitChars[dm.rem + 1]>>

\* JavaScript's s > t on strings: code unit by code unit, a proper prefix is less.
\* The characters compared are "-" and the digits, in that order in ASCII.
CharCode(c) == IF c = "-" THEN 45 ELSE 48 + DigitValue(c)

RECURSIVE StringGreater(_, _)
StringGreater(s, t) ==
  IF s = <<>> THEN FALSE
  ELSE IF t = <<>> THEN TRUE
  ELSE IF s[1] # t[1] THEN CharCode(s[1]) > CharCode(t[1])
  ELSE StringGreater(Tail(s), Tail(t))

\* String.prototype.split on a one-character separator
RECURSIVE Split(_, _)
Split(s, sep) ==
  IF \A i \in 1..Len(s) : s[i] # sep THEN <<s>>
  ELSE LET k == CHOOSE i \in 1..Len(s) : s[i] = sep /\ \A j \in 1..(i - 1) : s[j] # sep
       IN  <<SubSeq(s, 1, k - 1)>> \o Split(SubSeq(s, k + 1, Len(s)), sep)

(***************************************************************************)
(* long.js: 64-bit integers, signed or unsigned.  bytes is the two's       *)
(* complement bit pattern, LongBytes bytes, least significant first.       *)
(***************************************************************************)
\* the low 64 bits of a natural: arithmetic wraps modulo 2^64
LongFromBig(a, isUnsigned) ==
  [bytes |-> [i \in 1..LongBytes |-> BigByte(a, i)], unsigned |-> isUnsigned]

LongFromNat(n, isUnsigned) == LongFromBig(BigFromNat(n), isUnsigned)

LongIsZero(a) == \A i \in 1..LongBytes : a.bytes[i] = 0

\* signed and the sign bit set
LongIsNegative(a) == ~a.unsigned /\ a.bytes[LongBytes] >= 128

LongAdd(a, b) == LongFromBig(BigAdd(a.bytes, b.bytes), a.unsigned)

\* not().add(ONE); MIN_VALUE is its own negation either way
LongNeg(a) ==
  LongAdd([bytes |-> [i \in 1..LongBytes |-> 255 - a.bytes[i]], unsigned |-> a.unsigned],
          LongFromNat(1, a.unsigned))

\* the magnitude of a as a natural: the value itself unless a is negative
LongMagnitude(a) == IF LongIsNegative(a) THEN BigTrim(LongNeg(a).bytes) ELSE BigTrim(a.bytes)

\* Long.prototype.toString(): decimal, "-" first for a negative signed value
LongToString(a) ==
  IF LongIsNegative(a) THEN <<"-">> \o BigToString(LongMagnitude(a))
  ELSE BigToString(LongMagnitude(a))

\* Long.fromString(str) in radix 10, signed; the strings parsed here hold only
\* digits and "-".  Throws on the empty string and on a hyphen past the start.
RECURSIVE DigitsToBig(_, _)
DigitsToBig(str, acc) ==
  IF str = <<>> THEN acc
  ELSE DigitsToBig(Tail(str), BigAdd(BigMulSmall(acc, 10), BigFromNat(DigitValue(str[1]))))

LongFromString(str) ==
  IF str = <<>> THEN Threw
  ELSE IF \E i \in 2..Len(str) : str[i] = "-" THEN Threw
  ELSE IF str[1] = "-"
       THEN (IF Len(str) = 1 THEN Threw
             ELSE LongNeg(LongFromBig(DigitsToBig(Tail(str), <<>>), FALSE)))
  ELSE LongFromBig(DigitsToBig(str, <<>>), FALSE)

\* Long.prototype.subtract(count) with count a non-negative integer number:
\* this.add(fromValue(count).neg()), no range check
LongSubtract(a, count) ==
  LongFromBig(BigAdd(a.bytes, LongNeg(LongFromNat(count, FALSE)).bytes), a.unsigned)

(***************************************************************************)
(* JavaScript numbers beyond 32 bits: [neg, mag].                          *)
(***************************************************************************)
\* round a natural to DoubleBits significant bits, to nearest, ties to even
RoundToDouble(a) ==
  LET x  == BigTrim(a)
      sh == BigBitLen(x) - DoubleBits
  IN  IF sh <= 0 THEN x
      ELSE LET low  == BigLowBits(x, sh)
               high == [j \in 1..Len(x) |-> x[j] - low[j]]
               half == BigPow2(sh - 1)
               up   == \/ BigGreater(low, half)
                       \/ BigEqual(low, half) /\ BigBitAt(x, sh + 1) = 1
           IN  BigTrim(IF up THEN BigAdd(high, BigPow2(sh)) ELSE high)

\* Long.prototype.toNumber(): high * 2^32 + (low >>> 0), one rounding
LongToNumber(a) == [neg |-> LongIsNegative(a), mag |-> RoundToDouble(LongMagnitude(a))]

\* x * y for non-negative integer numbers x, y below 2^31
DoubleMul(x, y) == [neg |-> FALSE, mag |-> RoundToDouble(BigMul(BigFromNat(x), BigFromNat(y)))]

DoubleGreater(x, y) ==
  IF x.neg # y.neg THEN y.neg
  ELSE IF x.neg THEN BigGreater(y.mag, x.mag)
  ELSE BigGreater(x.mag, y.mag)

\* a > b on two Long objects: long.js defines no valueOf, so the relational
\* operator converts both operands with toString() and compares the strings
LongRelationalGreater(a, b) == StringGreater(LongToString(a), LongToString(b))

(***************************************************************************)
(* JavaScript numbers that stay small: NaN or [nan |-> FALSE, value |-> n] *)
(***************************************************************************)
Num(n) == [nan |-> FALSE, value |-> n]

\* the value of a non-empty run of decimal digits
RECURSIVE DigitsValue(_, _)
DigitsValue(str, acc) ==
  IF str = <<>> THEN acc ELSE DigitsValue(Tail(str), 10 * acc + DigitValue(str[1]))

\* the longest prefix of str made of digits
DigitPrefix(str) ==
  LET stop == {i \in 1..Len(str) : ~IsDigit(str[i])}
  IN  IF stop = {} THEN str
      ELSE SubSeq(str, 1, (CHOOSE i \in stop : \A j \in stop : i <= j) - 1)

\* Number.parseInt(str, 10): optional sign, then the digits up to the first
\* other character; NaN when there is no digit
ParseInt(str) ==
  LET negative == str # <<>> /\ str[1] = "-"
      digits   == DigitPrefix(IF negative THEN Tail(str) ELSE str)
  IN  IF digits = <<>> THEN NaN
      ELSE Num(IF negative THEN 0 - DigitsValue(digits, 0) ELSE DigitsValue(digits, 0))

\* x * mult, mult an integer
NumberMul(x, mult) == IF x = NaN THEN NaN ELSE Num(x.value * mult)

\* Number.prototype.toString() of an integer or NaN
NumberToString(x) ==
  IF x = NaN THEN <<"N", "a", "N">>
  ELSE IF x.value < 0 THEN <<"-">> \o BigToString(BigFromNat(0 - x.value))
  ELSE BigToString(BigFromNat(x.value))

(***************************************************************************)
(* Height arithmetic and chain ids                                         *)
(***************************************************************************)
subtractBlock(height, count) ==
  [revisionNumber |-> height.revisionNumber,
   revisionHeight |-> LongSubtract(height.revisionHeight, count)]

\* the pattern /-([0-9]+)$/, a leading zero allowed
regexRevNumAnyDigits(chainId) ==
  {i \in 1..(Len(chainId) - 1) :
     /\ chainId[i] = "-"
     /\ \A j \in (i + 1)..Len(chainId) : IsDigit(chainId[j])}

\* chainId.match(/-([1-9][0-9]*)$/): the positions of the hyphen that starts a match
regexRevNum(chainId) ==
  {i \in 1..(Len(chainId) - 1) :
     /\ chainId[i] = "-"
     /\ IsDigit(chainId[i + 1]) /\ chainId[i + 1] # "0"
     /\ \A j \in (i + 2)..Len(chainId) : IsDigit(chainId[j])}

parseRevisionNumber(chainId) ==
  LET match == regexRevNum(chainId)
  IN  IF match # {}
      THEN LongFromString(SubSeq(chainId, (CHOOSE i \in match : TRUE) + 1, Len(chainId)))
      ELSE LongFromNat(0, FALSE)

(***************************************************************************)
(* Event parser                                                            *)
(***************************************************************************)
\* may(transform, value) with transform = Long.fromString
mayLongFromString(value) ==
  IF value = undefined THEN undefined ELSE LongFromString(value.str)

\* attributes.reduce((acc, {key, value}) => ({...acc, [key]: value}), {}) read
\* at key: the value of the last attribute with that key, as [str |-> value],
\* or undefined
attributesObj(attributes, key) ==
  LET at == {i \in 1..Len(attributes) : attributes[i].key = key}
  IN  IF at = {} THEN undefined
      ELSE [str |-> attributes[CHOOSE i \in at : \A j \in at : j <= i].value]

\* toUtf8 of a string of "-" and digits: its character codes
toUtf8(str) == [i \in 1..Len(str) |-> CharCode(str[i])]

\* the timeoutHeight built from packet_timeout_height: both halves of the split
\* must be non-empty strings
timeoutHeightOf(attributes) ==
  LET raw   == attributesObj(attributes, "packet_timeout_height")
      parts == IF raw = undefined THEN <<>> ELSE Split(raw.str, "-")
      timeoutRevisionNumber == IF Len(parts) >= 1 THEN parts[1] ELSE <<>>
      timeoutRevisionHeight == IF Len(parts) >= 2 THEN parts[2] ELSE <<>>
  IN  IF timeoutRevisionNumber # <<>> /\ timeoutRevisionHeight # <<>>
      THEN [revisionNumber |-> LongFromString(timeoutRevisionNumber),
            revisionHeight |-> LongFromString(timeoutRevisionHeight)]
      ELSE undefined

\* Packet.fromPartial: the fields given, an absent one left absent
PacketFromPartial(fields) == fields

\* the Packet both parsers build from the attributes
packetOf(attributes) ==
  LET sequence         == mayLongFromString(attributesObj(attributes, "packet_sequence"))
      timeoutHeight    == timeoutHeightOf(attributes)
      timeoutTimestamp == mayLongFromString(attributesObj(attributes, "packet_timeout_timestamp"))
  IN  IF \/ sequence = Threw
         \/ timeoutTimestamp = Threw
         \/ timeoutHeight # undefined /\ Threw \in {timeoutHeight.revisionNumber,
                                                    timeoutHeight.revisionHeight}
      THEN Threw
      ELSE PacketFromPartial(
             [sequence         |-> sequence,
              sourcePort       |-> attributesObj(attributes, "packet_src_port"),
              sourceChannel    |-> attributesObj(attributes, "packet_src_channel"),
              timeoutHeight    |-> timeoutHeight,
              timeoutTimestamp |-> timeoutTimestamp])

\* parsePacket accepting the acknowledgement events too
parsePacketAnyPacketEvent(event) ==
  IF event.type \notin {"send_packet", "write_acknowledgement"} THEN Threw
  ELSE packetOf(event.attributes)

parsePacket(event) ==
  IF event.type # "send_packet" THEN Threw ELSE packetOf(event.attributes)

parseAck(event) ==
  IF event.type # "write_acknowledgement" THEN Threw
  ELSE LET originalPacket == packetOf(event.attributes)
           packet_ack     == attributesObj(event.attributes, "packet_ack")
       IN  IF originalPacket = Threw THEN Threw
           ELSE [acknowledgement |-> toUtf8(IF packet_ack = undefined THEN <<>> ELSE packet_ack.str),
                 originalPacket  |-> originalPacket]

\* the filter dropped: every event of the log
sendPacketEventsUnfiltered(log) == log.events

\* log.events.filter(({ type }) => type === 'send_packet')
sendPacketEvents(log) == SelectSeq(log.events, LAMBDA e : e.type = "send_packet")

\* ([] as ParsedEvent[]).concat(...allEvents)
RECURSIVE flatEvents(_)
flatEvents(allEvents) ==
  IF allEvents = <<>> THEN <<>> ELSE Head(allEvents) \o flatEvents(Tail(allEvents))

parsePacketsFromLogs(logs) ==
  LET events  == flatEvents([i \in 1..Len(logs) |-> sendPacketEvents(logs[i])])
      packets == [i \in 1..Len(events) |-> parsePacket(events[i])]
  IN  IF \E i \in 1..Len(packets) : packets[i] = Threw THEN Threw
      ELSE [packets |-> packets]

(***************************************************************************)
(* Fee scaler                                                              *)
(***************************************************************************)
multiplyCoin(coin, mult) ==
  [amount |-> NumberToString(NumberMul(ParseInt(coin.amount), mult)), denom |-> coin.denom]

\* amount.map(multiplyCoin, mult): map passes mult as thisArg and calls
\* multiplyCoin(coin, index, array), so each coin is multiplied by its index
multiplyFees(fee, mult) ==
  [gas    |-> NumberToString(NumberMul(ParseInt(fee.gas), mult)),
   amount |-> [i \in 1..Len(fee.amount) |-> multiplyCoin(fee.amount[i], i - 1)]]

(***************************************************************************)
(* Packet classifier                                                       *)
(***************************************************************************)
\* return true if a > b, or a undefined
heightGreater(a, b) ==
  IF a = undefined THEN TRUE
  ELSE IF LongToNumber(a.revisionNumber) = LongToNumber(b.revisionNumber)
       THEN LongRelationalGreater(a.revisionHeight, b.revisionHeight)
       ELSE LongRelationalGreater(a.revisionNumber, b.revisionNumber)

\* return true if a > b, or a 0; a is nanoseconds, b is seconds
timeGreater(a, b) ==
  IF a = undefined THEN TRUE
  ELSE IF LongIsZero(a) THEN TRUE
  ELSE DoubleGreater(LongToNumber(a), DoubleMul(b, NanosPerSecond))

validPacket(packet, currentHeight, currentTime) ==
  /\ heightGreater(packet.packet.timeoutHeight, currentHeight)
  /\ timeGreater(packet.packet.timeoutTimestamp, currentTime)

\* the reduce with each packet put in front of its list
RECURSIVE splitReducePrepend(_, _, _, _)
splitReducePrepend(acc, currentHeight, currentTime, packets) ==
  IF packets = <<>> THEN acc
  ELSE LET packet == Head(packets)
           next   == IF validPacket(packet, currentHeight, currentTime)
                     THEN [acc EXCEPT !.toSubmit = <<packet>> \o acc.toSubmit]
                     ELSE [acc EXCEPT !.toTimeout = <<packet>> \o acc.toTimeout]
       IN  splitReducePrepend(next, currentHeight, currentTime, Tail(packets))

\* packets.reduce(...) from the empty pair of lists, appending to one of them
RECURSIVE splitReduce(_, _, _, _)
splitReduce(acc, currentHeight, currentTime, packets) ==
  IF packets = <<>> THEN acc
  ELSE LET packet == Head(packets)
           next   == IF validPacket(packet, currentHeight, currentTime)
                     THEN [acc EXCEPT !.toSubmit = Append(acc.toSubmit, packet)]
                     ELSE [acc EXCEPT !.toTimeout = Append(acc.toTimeout, packet)]
       IN  splitReduce(next, currentHeight, currentTime, Tail(packets))

splitPendingPackets(currentHeight, currentTime, packets) ==
  splitReduce([toSubmit |-> <<>>, toTimeout |-> <<>>], currentHeight, currentTime, packets)

(***************************************************************************)
(* Inputs                                                                  *)
(***************************************************************************)
MaxPackets == 3
MaxLogs == 2
MaxEvents == 2
MaxChainIdLen == 5
MaxBlockHeight == 5
MaxCount == 6
MaxCoins == 2
MaxMult == 3

\* all sequences over S of length at most n
SeqsUpTo(S, n) == UNION {[1..k -> S] : k \in 0..n}

\* the decimal string of a small natural
Dec(n) == BigToString(BigFromNat(n))

\* a Height as the chain client reports it (unsigned) or as parsed from an
\* event (signed)
Height(revisionNumber, revisionHeight, isUnsigned) ==
  [revisionNumber |-> LongFromNat(revisionNumber, isUnsigned),
   revisionHeight |-> LongFromNat(revisionHeight, isUnsigned)]

\* a timestamp of sec seconds and extra nanoseconds, as parsed from an event
Nanos(sec, extra) ==
  LongFromBig(BigAdd(BigMul(BigFromNat(sec), BigFromNat(NanosPerSecond)), BigFromNat(extra)),
              FALSE)

CurrentHeights == {Height(1, 100, TRUE), Height(2, 200, TRUE), Height(0, 5, TRUE),
                   Height(10, 7, TRUE)}

CurrentTimes == {1000, 1600000000}

TimeoutHeights ==
  {undefined} \cup {Height(h[1], h[2], FALSE) :
                      h \in {<<0, 0>>, <<1, 50>>, <<1, 100>>, <<1, 200>>, <<2, 150>>}}

TimeoutTimestamps ==
  {undefined, LongFromNat(0, FALSE)}
    \cup {Nanos(sec, extra) : sec \in {500, 1000, 1600000000}, extra \in {0, 1, 129}}

\* a PacketWithMetadata; sequence tells the packets of a batch apart
PacketWithMetadata(sequence, timeoutHeight, timeoutTimestamp) ==
  [packet |-> [sequence         |-> LongFromNat(sequence, FALSE),
               sourcePort       |-> undefined,
               sourceChannel    |-> undefined,
               timeoutHeight    |-> timeoutHeight,
               timeoutTimestamp |-> timeoutTimestamp],
   height |-> sequence]

SinglePackets ==
  {PacketWithMetadata(1, th, ts) : th \in TimeoutHeights, ts \in TimeoutTimestamps}

BatchPackets ==
  {PacketWithMetadata(1, Height(1, 200, FALSE), undefined),
   PacketWithMetadata(2, Height(1, 50, FALSE), LongFromNat(0, FALSE)),
   PacketWithMetadata(3, undefined, Nanos(500, 0)),
   PacketWithMetadata(4, Height(2, 150, FALSE), Nanos(1600000000, 129))}

PendingPackets == {<<p>> : p \in SinglePackets} \cup SeqsUpTo(BatchPackets, MaxPackets)

Attr(key, value) == [key |-> key, value |-> value]

AttributeLists ==
  {<<>>,
   <<Attr("packet_sequence", Dec(7)), Attr("packet_timeout_height", Dec(2) \o <<"-">> \o Dec(150)),
     Attr("packet_timeout_timestamp", Dec(0))>>,
   <<Attr("packet_sequence", Dec(8)), Attr("packet_timeout_height", <<"0", "-", "0">>),
     Attr("packet_timeout_timestamp", Dec(1600000000) \o Tail(Dec(1000000001)))>>,
   <<Attr("packet_sequence", Dec(9)), Attr("packet_src_channel", <<"0">>),
     Attr("packet_ack", <<"1">>)>>,
   <<Attr("packet_sequence", Dec(1)), Attr("packet_sequence", Dec(2)),
     Attr("packet_timeout_height", <<"5">>)>>,
   <<Attr("packet_timeout_height", <<"1", "-">>)>>,
   <<Attr("packet_sequence", <<>>)>>}

EventTypes == {"send_packet", "write_acknowledgement", "other"}

Events == {[type |-> t, attributes |-> a] : t \in EventTypes, a \in AttributeLists}

\* the events of the logs: two send_packet events that parse and an event of
\* another type whose attributes would not
LogEvents ==
  {[type |-> "send_packet",
    attributes |-> <<Attr("packet_sequence", Dec(1)),
                     Attr("packet_timeout_height", Dec(1) \o <<"-">> \o Dec(50))>>],
   [type |-> "send_packet", attributes |-> <<Attr("packet_sequence", Dec(2))>>],
   [type |-> "write_acknowledgement", attributes |-> <<Attr("packet_sequence", <<>>)>>]}

Logs == SeqsUpTo({[events |-> es] : es \in SeqsUpTo(LogEvents, MaxEvents)}, MaxLogs)

ChainIdChars == {"c", "-", "0", "3", "7"}

ChainIdExamples ==
  {<<"t", "e", "s", "t", "i", "n", "g", "-", "4">>,
   <<"t", "e", "s", "t", "i", "n", "g">>,
   <<"c", "h", "a", "i", "n", "-", "0", "7", "-", "3">>,
   <<"c", "-">> \o Dec(160000000) \o Tail(Dec(1000000001)),
   <<"c", "-">> \o Dec(184467440) \o Dec(737095516) \o Dec(17)}

ChainIds == SeqsUpTo(ChainIdChars, MaxChainIdLen) \cup ChainIdExamples

BlockHeights ==
  {Height(rn, rh, u) : rn \in {0, 1}, rh \in 0..MaxBlockHeight, u \in BOOLEAN}

Coins == {[amount |-> a, denom |-> d] : a \in {Dec(50), Dec(3), <<"x">>}, d \in {"x", "y"}}

Fees ==
  {[gas |-> g, amount |-> cs] :
     g \in {Dec(100000), Dec(7), <<"x">>}, cs \in SeqsUpTo(Coins, MaxCoins)}

(***************************************************************************)
(* The calls: from the idle state, one function is called on one input.    *)
(***************************************************************************)
Idle == op = "none"

Init ==
  /\ op = "none"
  /\ arg = <<>>
  /\ ret = <<>>

SplitPendingPackets ==
  /\ Idle
  /\ \E currentHeight \in CurrentHeights, currentTime \in CurrentTimes, packets \in PendingPackets :
      /\ op' = "splitPendingPackets"
      /\ arg' = [currentHeight |-> currentHeight, currentTime |-> currentTime,
                 packets |-> packets]
      /\ ret' = splitPendingPackets(currentHeight, currentTime, packets)

ParsePacket ==
  /\ Idle
  /\ \E event \in Events :
      /\ op' = "parsePacket"
      /\ arg' = event
      /\ ret' = parsePacket(event)

ParseAck ==
  /\ Idle
  /\ \E event \in Events :
      /\ op' = "parseAck"
      /\ arg' = event
      /\ ret' = parseAck(event)

ParsePacketsFromLogs ==
  /\ Idle
  /\ \E logs \in Logs :
      /\ op' = "parsePacketsFromLogs"
      /\ arg' = logs
      /\ ret' = parsePacketsFromLogs(logs)

ParseRevisionNumber ==
  /\ Idle
  /\ \E chainId \in ChainIds :
      /\ op' = "parseRevisionNumber"
      /\ arg' = chainId
      /\ ret' = parseRevisionNumber(chainId)

SubtractBlock ==
  /\ Idle
  /\ \E height \in BlockHeights, count \in 0..MaxCount :
      /\ op' = "subtractBlock"
      /\ arg' = [height |-> height, count |-> count]
      /\ ret' = subtractBlock(height, count)

MultiplyFees ==
  /\ Idle
  /\ \E fee \in Fees, mult \in 0..MaxMult :
      /\ op' = "multiplyFees"
      /\ arg' = [fee |-> fee, mult |-> mult]
      /\ ret' = multiplyFees(fee, mult)

MultiplyCoin ==
  /\ Idle
  /\ \E coin \in Coins, mult \in 0..MaxMult :
      /\ op' = "multiplyCoin"
      /\ arg' = [coin |-> coin, mult |-> mult]
      /\ ret' = multiplyCoin(coin, mult)

Next ==
  \/ SplitPendingPackets
  \/ ParsePacket
  \/ ParseAck
  \/ ParsePacketsFromLogs
  \/ ParseRevisionNumber
  \/ SubtractBlock
  \/ MultiplyFees
  \/ MultiplyCoin

Spec == Init /\ [][Next]_vars

(***************************************************************************)
(* What the specification says, stated on exact integers                   *)
(***************************************************************************)
Called(name) == op = name

InList(x, list) == \E i \in 1..Len(list) : list[i] = x

\* a > b in the lexicographic order on (revisionNumber, revisionHeight), the
\* fields compared as unsigned 64-bit integers
HeightAfter(a, b) ==
  \/ BigGreater(a.revisionNumber.bytes, b.revisionNumber.bytes)
  \/ /\ BigEqual(a.revisionNumber.bytes, b.revisionNumber.bytes)
     /\ BigGreater(a.revisionHeight.bytes, b.revisionHeight.bytes)

NoTimestamp(packet) ==
  \/ packet.timeoutTimestamp = undefined
  \/ LongIsZero(packet.timeoutTimestamp)

ZeroHeight(h) == LongIsZero(h.revisionNumber) /\ LongIsZero(h.revisionHeight)

\* the height dimension has not expired (section 4.3)
HeightValid(packet, currentHeight) ==
  \/ packet.timeoutHeight = undefined
  \/ HeightAfter(packet.timeoutHeight, currentHeight)

\* nanoseconds > seconds * 1e9, exactly
TimestampAfter(timestamp, currentTime) ==
  BigGreater(timestamp.bytes, BigMul(BigFromNat(currentTime), BigFromNat(NanosPerSecond)))

\* the time dimension has not expired (section 4.3)
TimeValid(packet, currentTime) ==
  \/ NoTimestamp(packet)
  \/ TimestampAfter(packet.timeoutTimestamp, currentTime)

\* every packet of the call for which Case holds is in toSubmit if Valid holds
\* of it and in toTimeout if not, and in no other list
Classified(Case(_), Valid(_)) ==
  \A i \in 1..Len(arg.packets) :
    LET p == arg.packets[i]
    IN  Case(p.packet) =>
          /\ InList(p, ret.toSubmit) <=> Valid(p.packet)
          /\ InList(p, ret.toTimeout) <=> ~Valid(p.packet)

\* C1: a packet with a timeout height and no timeout timestamp goes to toSubmit
\* if and only if its timeoutHeight is strictly greater than currentHeight in the
\* lexicographic order on (revisionNumber, revisionHeight), compared as unsigned
\* integers; otherwise it goes to toTimeout.
C1_HeightOrder ==
  Called("splitPendingPackets") =>
    Classified(LAMBDA pk : pk.timeoutHeight # undefined /\ NoTimestamp(pk),
               LAMBDA pk : HeightAfter(pk.timeoutHeight, arg.currentHeight))

\* C2: a packet goes to toSubmit if and only if both its height dimension and
\* its time dimension are valid, and to toTimeout otherwise.
C2_BothDimensions ==
  Called("splitPendingPackets") =>
    Classified(LAMBDA pk : TRUE,
               LAMBDA pk : /\ HeightValid(pk, arg.currentHeight)
                           /\ TimeValid(pk, arg.currentTime))

\* C3: the time dimension is valid when timeoutTimestamp is absent or zero, and
\* otherwise if and only if timeoutTimestamp > currentTime * 1,000,000,000,
\* strictly.  Read off the packets without a timeout height, whose height
\* dimension cannot expire.
C3_TimeStrict ==
  Called("splitPendingPackets") =>
    Classified(LAMBDA pk : pk.timeoutHeight = undefined,
               LAMBDA pk : TimeValid(pk, arg.currentTime))

\* the elements of list at the indices in S, in the order of the list
RECURSIVE Pick(_, _, _)
Pick(list, S, i) ==
  IF i > Len(list) THEN <<>>
  ELSE (IF i \in S THEN <<list[i]>> ELSE <<>>) \o Pick(list, S, i + 1)

\* C4: splitPendingPackets is a stable partition: the positions of the input
\* split into two sets, toSubmit is the input at the positions of one and
\* toTimeout the input at the positions of the other, each in input order.
C4_StablePartition ==
  Called("splitPendingPackets") =>
    \E S \in SUBSET (1..Len(arg.packets)) :
      /\ ret.toSubmit = Pick(arg.packets, S, 1)
      /\ ret.toTimeout = Pick(arg.packets, (1..Len(arg.packets)) \ S, 1)

\* a batch of three distinct packets that interleaves the two lists
C4_Witness ==
  /\ Called("splitPendingPackets")
  /\ Len(arg.packets) = 3
  /\ arg.packets[1] # arg.packets[3]
  /\ ret.toTimeout = <<arg.packets[1], arg.packets[3]>>
  /\ ret.toSubmit = <<arg.packets[2]>>

\* C5: a packet whose timeout height is absent or zero and whose timeout
\* timestamp is absent or zero always lands in toSubmit, never in toTimeout,
\* whatever currentHeight is.
C5_ZeroHeightNeverExpires ==
  Called("splitPendingPackets") =>
    Classified(LAMBDA pk : /\ NoTimestamp(pk)
                           /\ \/ pk.timeoutHeight = undefined
                              \/ ZeroHeight(pk.timeoutHeight),
               LAMBDA pk : TRUE)

AllDigits(str) == str # <<>> /\ \A i \in 1..Len(str) : IsDigit(str[i])

\* the decimal string of the number written by the digits str, times factor
Times(str, factor) == Dec(DigitsValue(str, 0) * factor)

\* C6: multiplyFees(fee, factor) returns the gas times factor and, at every
\* position of the amount list, the coin with its amount times factor and its
\* denom unchanged; the list keeps its length and order.
C6_MultiplyFees ==
  Called("multiplyFees") =>
    /\ AllDigits(arg.fee.gas) => ret.gas = Times(arg.fee.gas, arg.mult)
    /\ Len(ret.amount) = Len(arg.fee.amount)
    /\ \A i \in 1..Len(arg.fee.amount) :
         /\ ret.amount[i].denom = arg.fee.amount[i].denom
         /\ AllDigits(arg.fee.amount[i].amount) =>
              ret.amount[i].amount = Times(arg.fee.amount[i].amount, arg.mult)

\* C7: parsePacket throws for every event whose type is not "send_packet", and
\* parseAck for every event whose type is not "write_acknowledgement", whatever
\* the attributes are.
C7_WrongTypeThrows ==
  /\ Called("parsePacket") /\ arg.type # "send_packet" => ret = Threw
  /\ Called("parseAck") /\ arg.type # "write_acknowledgement" => ret = Threw

\* an acknowledgement event with well-formed packet attributes, given to parsePacket
C7_Witness ==
  /\ Called("parsePacket")
  /\ arg.type = "write_acknowledgement"
  /\ attributesObj(arg.attributes, "packet_sequence") = [str |-> Dec(9)]
  /\ ret = Threw

\* all the events of the logs, log after log, then those of type send_packet
SendPacketEventsInOrder(logs) ==
  SelectSeq(flatEvents([i \in 1..Len(logs) |-> logs[i].events]),
            LAMBDA e : e.type = "send_packet")

\* the logs without their events of other types
OnlySendPackets(logs) ==
  [i \in 1..Len(logs) |->
     [events |-> SelectSeq(logs[i].events, LAMBDA e : e.type = "send_packet")]]

\* C8: parsePacketsFromLogs returns one packet per send_packet event, in the
\* order of the logs and of the events in each log (the k-th packet carries the
\* sequence number the k-th send_packet event wrote); events of other types
\* cause no failure and do not change the result.
C8_OnePacketPerSendPacket ==
  Called("parsePacketsFromLogs") =>
    LET sent == SendPacketEventsInOrder(arg)
    IN  /\ ret # Threw
        /\ Len(ret.packets) = Len(sent)
        /\ \A k \in 1..Len(sent) :
             [str |-> LongToString(ret.packets[k].sequence)]
               = attributesObj(sent[k].attributes, "packet_sequence")
        /\ ret = parsePacketsFromLogs(OnlySendPackets(arg))

\* two logs, send_packet events in both, out of sequence order, around an event
\* of another type
C8_Witness ==
  /\ Called("parsePacketsFromLogs")
  /\ Len(arg) = 2
  /\ Len(arg[1].events) = 2
  /\ Len(arg[2].events) = 1
  /\ arg[1].events[1].type = "write_acknowledgement"
  /\ arg[1].events[2].type = "send_packet"
  /\ arg[2].events[1].type = "send_packet"
  /\ ret # Threw
  /\ Len(ret.packets) = 2
  /\ LongToString(ret.packets[1].sequence) = Dec(2)
  /\ LongToString(ret.packets[2].sequence) = Dec(1)

\* the digits after the last hyphen of a chain id that ends in "-<digits>",
\* <<>> when it does not end so
TrailingDigits(chainId) ==
  LET at == {i \in 1..(Len(chainId) - 1) :
               chainId[i] = "-" /\ \A j \in (i + 1)..Len(chainId) : IsDigit(chainId[j])}
  IN  IF at = {} THEN <<>>
      ELSE SubSeq(chainId, (CHOOSE i \in at : TRUE) + 1, Len(chainId))

\* digits without their leading zeros: the number they write, in decimal
RECURSIVE Canonical(_)
Canonical(digits) ==
  IF Len(digits) > 1 /\ digits[1] = "0" THEN Canonical(Tail(digits)) ELSE digits

\* digits write a number below 2^63: at most 18 of them
FitsLong(digits) == Len(digits) <= 18

\* C9 as claimed: parseRevisionNumber returns the number written by the trailing
\* "-<digits>" suffix of every chain id that has one, and 0 when there is none.
C9_TrailingDigits ==
  Called("parseRevisionNumber") =>
    LET digits == TrailingDigits(arg)
    IN  IF digits # <<>> /\ FitsLong(digits)
        THEN LongToString(ret) = Canonical(digits)
        ELSE digits = <<>> => LongIsZero(ret)

\* C9 as amended: parseRevisionNumber returns the number written by the trailing
\* "-<digits>" suffix of every chain id that ends in a hyphen followed by digits
\* the first of which is not 0 (the number below 2^63), and 0 for every chain id
\* without such a suffix, one whose trailing digits start with 0 included.
C9_TrailingDigitsNoLeadingZero ==
  Called("parseRevisionNumber") =>
    LET digits == TrailingDigits(arg)
    IN  IF digits # <<>> /\ digits[1] # "0"
        THEN FitsLong(digits) => LongToString(ret) = digits
        ELSE LongIsZero(ret)

\* "chain-07-3": the last suffix counts, the one with the leading zero does not
C9_Witness ==
  /\ Called("parseRevisionNumber")
  /\ Len(arg) = 10
  /\ SubSeq(arg, 6, 10) = <<"-", "0", "7", "-", "3">>
  /\ LongToString(ret) = <<"3">>

\* the value of a Long that holds a small natural
RECURSIVE BigToNat(_)
BigToNat(a) == IF a = <<>> THEN 0 ELSE a[1] + 256 * BigToNat(Tail(a))

\* C10: subtractBlock(height, count) returns the same revisionNumber and
\* revisionHeight - count when count <= revisionHeight and throws when
\* count > revisionHeight; the revisionHeight it returns is never negative or
\* wrapped around.
C10_SubtractBlockChecked ==
  Called("subtractBlock") =>
    LET revisionHeight == BigToNat(BigTrim(arg.height.revisionHeight.bytes))
    IN  IF arg.count <= revisionHeight
        THEN ret = [revisionNumber |-> arg.height.revisionNumber,
                    revisionHeight |-> LongFromNat(revisionHeight - arg.count,
                                                   arg.height.revisionHeight.unsigned)]
        ELSE ret = Threw

\* a valid integer string: decimal digits, after an optional minus sign
ValidInteger(str) ==
  \/ AllDigits(str)
  \/ str # <<>> /\ str[1] = "-" /\ AllDigits(Tail(str))

NaNString == <<"N", "a", "N">>

\* C11: multiplyFees and multiplyCoin throw whenever the gas or a coin amount is
\* not a valid integer string, and never return a fee or a coin whose gas or
\* amount is the string "NaN".
C11_InvalidAmountThrows ==
  /\ Called("multiplyCoin") =>
       /\ ~ValidInteger(arg.coin.amount) => ret = Threw
       /\ ret # Threw => ret.amount # NaNString
  /\ Called("multiplyFees") =>
       /\ (\/ ~ValidInteger(arg.fee.gas)
           \/ \E i \in 1..Len(arg.fee.amount) : ~ValidInteger(arg.fee.amount[i].amount))
            => ret = Threw
       /\ ret # Threw =>
            /\ ret.gas # NaNString
            /\ \A i \in 1..Len(ret.amount) : ret.amount[i].amount # NaNString

====
